---- MODULE Spec2Model ----
(***************************************************************************)
(* A model of src/sele.py: the El Pais opinion scraper.                    *)
(*                                                                         *)
(* Strings the program takes apart (URLs, titles) are sequences: a title   *)
(* is a sequence of one-character strings, a URL a sequence of URL pieces  *)
(* ("https://elpais.com", "/opinion/", "a", ".html").  Python dicts are    *)
(* functions whose DOMAIN is the set of keys.  Python's None is the        *)
(* reserved value None (sequence-typed) or NoneStr (string-typed).         *)
(*                                                                         *)
(* Specifications:                                                         *)
(*   Spec        the two run modes of __main__: the local flow and the     *)
(*               parallel BrowserStack flow (thread pool, workers, merge,  *)
(*               dedupe, translation, analysis)                            *)
(*   SpecLinks   the link discovery of scrape_opinion_articles             *)
(*   SpecAnalyze analyze_translated_headers                                *)
(*   SpecDriver  get_browserstack_driver                                   *)
(*   SpecArticle one iteration of the article loop, with the image fetch   *)
(*   SpecParallel the parallel run alone, under fair scheduling            *)
(***************************************************************************)
EXTENDS Integers, Sequences, FiniteSets, TLC

VARIABLES
    fn_pc,      \* function-level runs: "call" before, "returned" after
    fn_args,    \* function-level runs: the arguments of the call
    fn_ret,     \* function-level runs: what the call returned
    mode,             \* args.local / args.bs: "local" or "bs"
    HAS_GOOGLE,       \* whether google.cloud.translate was imported
    environ,          \* os.environ
    cred_file,        \* the JSON file GOOGLE_APPLICATION_CREDENTIALS names
    capabilities_list,\* the argument of run_on_browserstack_parallel
    main_pc,          \* where the main thread is
    uncaught,         \* the exception that left the flow uncaught, "" if none
    max_workers,      \* the pool size of the ThreadPoolExecutor
    wk,               \* per worker: its future, its driver and its scrape
    finish_order,     \* the workers in the order their futures finished
    first_batch,      \* as_completed: the futures already finished at its start
    yielded,          \* as_completed: the workers whose futures it has yielded
    results_all,      \* run_on_browserstack_parallel's results_all
    results,          \* the list the scrape (local) or the parallel run returned
    unique_results,   \* __main__'s unique_results
    titles,           \* the titles handed to the translation
    calls,            \* the translate_text calls made: [text, reply]
    translated,       \* the list translated, None until it is set
    repeated,         \* the analysis result, None until it is computed
    files             \* the image files written under IMAGES_DIR

fn_vars == <<fn_pc, fn_args, fn_ret>>

main_vars ==
    <<mode, HAS_GOOGLE, environ, cred_file, capabilities_list, main_pc, uncaught,
      max_workers, wk, finish_order, first_batch, yielded, results_all, results,
      unique_results, titles, calls, translated, repeated, files>>

vars == <<fn_vars, main_vars>>

(***************************************************************************)
(* Bounds of the model.                                                    *)
(***************************************************************************)
MaxLinks == 3
MaxCount == 3
MaxTitles == 3
MaxCaps == 2

(***************************************************************************)
(* Python values.                                                          *)
(***************************************************************************)
None == <<"<None>">>

NoneStr == "<None>"

EmptyDict == [k \in {} |-> k]

DictGet(d, k, default) == IF k \in DOMAIN d THEN d[k] ELSE default

DictPut(d, k, v) == [x \in (DOMAIN d) \cup {k} |-> IF x = k THEN v ELSE d[x]]

Min(a, b) == IF a < b THEN a ELSE b

\* s[:n] for n >= 0
Slice(s, n) == SubSeq(s, 1, Min(Len(s), n))

Range(s) == {s[i] : i \in 1..Len(s)}

(***************************************************************************)
(* Link discovery: scrape_opinion_articles, lines 71-95.                   *)
(***************************************************************************)
ELPAIS == "https://elpais.com"

\* href.startswith('/'): the pieces that begin with a slash
StartsWithSlash(href) == Len(href) > 0 /\ href[1] \in {"/opinion/", "/sport/"}

\* urljoin('https://elpais.com', href) for a root-relative href
UrlJoin(base, href) == <<base>> \o href

\* piece in full (substring test on the pieces)
Contains(full, piece) == \E i \in 1..Len(full) : full[i] = piece

EndsWith(full, piece) == Len(full) > 0 /\ full[Len(full)] = piece

FullUrl(href) == IF StartsWithSlash(href) THEN UrlJoin(ELPAIS, href) ELSE href

IsOpinionArticle(full) ==
    /\ Contains(full, ELPAIS)
    /\ Contains(full, "/opinion/")
    /\ EndsWith(full, ".html")

RECURSIVE Candidates(_)
Candidates(anchors) ==
    IF anchors = <<>> THEN <<>>
    ELSE LET href == Head(anchors)
             rest == Candidates(Tail(anchors))
         IN  IF href = <<>> THEN rest
             ELSE IF IsOpinionArticle(FullUrl(href))
                  THEN <<FullUrl(href)>> \o rest
                  ELSE rest

RECURSIVE DedupeOrdered(_, _)
DedupeOrdered(candidates, seen) ==
    IF candidates = <<>> THEN <<>>
    ELSE LET u == Head(candidates)
         IN  IF u \notin seen
             THEN <<u>> \o DedupeOrdered(Tail(candidates), seen \cup {u})
             ELSE DedupeOrdered(Tail(candidates), seen)

\* a plausible slip: truncating the candidates before the duplicates are dropped
ExtractArticleLinksTruncFirst(anchors, max_articles) ==
    DedupeOrdered(Slice(Candidates(anchors), max_articles), {})

ExtractArticleLinks(anchors, max_articles) ==
    Slice(DedupeOrdered(Candidates(anchors), {}), max_articles)

(***************************************************************************)
(* The anchors a landing page may hold.                                    *)
(***************************************************************************)
RelA == <<"/opinion/", "a", ".html">>
AbsA == <<ELPAIS, "/opinion/", "a", ".html">>
RelB == <<"/opinion/", "b", ".html">>
AbsC == <<ELPAIS, "/opinion/", "c", ".html">>
OtherHostA == <<"https://other.com", "/opinion/", "a", ".html">>
SportA == <<"/sport/", "a", ".html">>
NoSuffixA == <<"/opinion/", "a">>

Hrefs == {<<>>, RelA, AbsA, RelB, AbsC, OtherHostA, SportA, NoSuffixA}

SeqsUpTo(S, n) == UNION {[1..k -> S] : k \in 0..n}

LinksInit ==
    /\ fn_pc = "call"
    /\ fn_args \in [anchors : SeqsUpTo(Hrefs, MaxLinks), max_articles : 0..MaxCount]
    /\ fn_ret = None

CallExtractLinks ==
    /\ fn_pc = "call"
    /\ fn_pc' = "returned"
    /\ fn_ret' = ExtractArticleLinks(fn_args.anchors, fn_args.max_articles)
    /\ UNCHANGED fn_args

(***************************************************************************)
(* Analysis: analyze_translated_headers, lines 228-245.                    *)
(***************************************************************************)
UpperChars ==
    <<"A", "B", "C", "D", "E", "F", "G", "H", "I", "J", "K", "L", "M",
      "N", "O", "P", "Q", "R", "S", "T", "U", "V", "W", "X", "Y", "Z">>

LowerChars ==
    <<"a", "b", "c", "d", "e", "f", "g", "h", "i", "j", "k", "l", "m",
      "n", "o", "p", "q", "r", "s", "t", "u", "v", "w", "x", "y", "z">>

DigitChars == {"0", "1", "2", "3", "4", "5", "6", "7", "8", "9"}

\* \w of the regular expression
WordChars == Range(UpperChars) \cup Range(LowerChars) \cup DigitChars \cup {"_"}

IsWordChar(c) == c \in WordChars

\* \s of the regular expression, and what str.split() splits on
IsSpaceChar(c) == c \in {" ", "\t", "\n", "\r"}

\* str.lower() on one character
LowerChar(c) ==
    IF c \in Range(UpperChars)
    THEN LowerChars[CHOOSE i \in 1..Len(UpperChars) : UpperChars[i] = c]
    ELSE c

\* re.sub(r"[^\w\s]", ' ', t)
CleanTitle(t) ==
    [i \in 1..Len(t) |-> IF IsWordChar(t[i]) \/ IsSpaceChar(t[i]) THEN t[i] ELSE " "]

LowerStr(t) == [i \in 1..Len(t) |-> LowerChar(t[i])]

\* str.split(): the maximal runs of non-space characters, in order
RECURSIVE SplitFrom(_, _, _)
SplitFrom(s, i, cur) ==
    IF i > Len(s)
    THEN IF cur = <<>> THEN <<>> ELSE <<cur>>
    ELSE IF IsSpaceChar(s[i])
         THEN IF cur = <<>>
              THEN SplitFrom(s, i + 1, <<>>)
              ELSE <<cur>> \o SplitFrom(s, i + 1, <<>>)
         ELSE SplitFrom(s, i + 1, Append(cur, s[i]))

SplitWords(s) == SplitFrom(s, 1, <<>>)

\* "if not t": None and the empty string
Falsy(t) == t = None \/ t = <<>>

\* len(w) > 2
MinWordLen == 2

\* c > 2
MinRepeat == 2

RECURSIVE KeepLong(_)
KeepLong(ws) ==
    IF ws = <<>> THEN <<>>
    ELSE IF Len(Head(ws)) > MinWordLen
         THEN <<Head(ws)>> \o KeepLong(Tail(ws))
         ELSE KeepLong(Tail(ws))

\* the list words, lines 230-238
RECURSIVE TitleWords(_)
TitleWords(translated_titles) ==
    IF translated_titles = <<>> THEN <<>>
    ELSE LET t == Head(translated_titles)
             rest == TitleWords(Tail(translated_titles))
         IN  IF Falsy(t) THEN rest
             ELSE KeepLong(SplitWords(LowerStr(CleanTitle(t)))) \o rest

\* the dict counts, lines 240-242
RECURSIVE CountWords(_, _)
CountWords(words, counts) ==
    IF words = <<>> THEN counts
    ELSE CountWords(Tail(words),
                    DictPut(counts, Head(words), DictGet(counts, Head(words), 0) + 1))

\* line 244
Repeated(counts) ==
    [w \in {x \in DOMAIN counts : counts[x] > MinRepeat} |-> counts[w]]

RECURSIVE MergePerTitle(_, _)
MergePerTitle(translated_titles, acc) ==
    IF translated_titles = <<>> THEN acc
    ELSE LET r == Repeated(CountWords(TitleWords(<<Head(translated_titles)>>), EmptyDict))
         IN  MergePerTitle(Tail(translated_titles),
                           [w \in (DOMAIN acc) \cup (DOMAIN r) |->
                               DictGet(acc, w, 0) + DictGet(r, w, 0)])

\* a plausible slip: the threshold applied to each title's own counts
AnalyzePerTitle(translated_titles) == MergePerTitle(translated_titles, EmptyDict)

analyze_translated_headers(translated_titles) ==
    Repeated(CountWords(TitleWords(translated_titles), EmptyDict))

(***************************************************************************)
(* The titles the analysis is run on.                                      *)
(***************************************************************************)
TheCatSat == <<"T", "h", "e", " ", "C", "a", "t", " ", "s", "a", "t", ".">>
TheCatRan == <<"t", "h", "e", " ", "c", "a", "t", " ", "R", "A", "N">>
ACatJumped == <<"a", " ", "c", "a", "t", " ", "j", "u", "m", "p", "e", "d">>
CatCatCat == <<"c", "a", "t", ",", "c", "a", "t", ";", "C", "A", "T">>
AtAtAt == <<"a", "t", " ", "a", "t", " ", "a", "t", " ", "i", "t">>
CatsCat == <<"C", "a", "t", "s", " ", "c", "a", "t", ".">>

TitlePool == {None, <<>>, TheCatSat, TheCatRan, ACatJumped, CatCatCat, AtAtAt, CatsCat}

Reorderings(n) == {p \in [1..n -> 1..n] : \A i, j \in 1..n : p[i] = p[j] => i = j}

AnalyzeInit ==
    /\ fn_pc = "call"
    /\ \E ts \in SeqsUpTo(TitlePool, MaxTitles) :
         \E p \in Reorderings(Len(ts)) :
            fn_args = [translated_titles |-> ts,
                       reordered |-> [i \in 1..Len(ts) |-> ts[p[i]]]]
    /\ fn_ret = None

CallAnalyze ==
    /\ fn_pc = "call"
    /\ fn_pc' = "returned"
    /\ fn_ret' = [repeated |-> analyze_translated_headers(fn_args.translated_titles),
                  repeated_reordered |-> analyze_translated_headers(fn_args.reordered)]
    /\ UNCHANGED fn_args

(***************************************************************************)
(* The remote driver: get_browserstack_driver, lines 254-302.              *)
(***************************************************************************)
\* os.environ.get(name)
EnvGet(env, name) == DictGet(env, name, NoneStr)

\* "not user": None and the empty string
FalsyStr(x) == x = NoneStr \/ x = ""

\* str.lower() on a browser name
LowerName(name) ==
    CASE name = "Chrome" -> "chrome"
      [] name = "Firefox" -> "firefox"
      [] name = "Edge" -> "edge"
      [] name = "Safari" -> "safari"
      [] name = "Opera" -> "opera"
      [] OTHER -> name

SpanishChromium == [arguments |-> {"--lang=es"}, prefs |-> "es,es_ES"]

\* the Options object picked by browser name, lines 264-282
OptionsFor(browser_name) ==
    CASE browser_name = "chrome" -> [class |-> "ChromeOptions"] @@ SpanishChromium
      [] browser_name = "firefox" ->
            [class |-> "FirefoxOptions", arguments |-> {}, prefs |-> "es-ES, es"]
      [] browser_name = "edge" -> [class |-> "EdgeOptions"] @@ SpanishChromium
      [] browser_name = "safari" ->
            [class |-> "SafariOptions", arguments |-> {}, prefs |-> ""]
      [] OTHER -> [class |-> "ChromeOptions", arguments |-> {}, prefs |-> ""]

\* a plausible slip: a fresh bundle that holds only the authentication keys
InjectAuthFreshBundle(cap, user, key) ==
    DictPut(cap, "bstack:options",
            DictPut(DictPut(EmptyDict, "userName", user), "accessKey", key))

\* lines 287-294: the bundle with the authentication keys, put back into cap
InjectAuth(cap, user, key) ==
    LET bstack_options == DictGet(cap, "bstack:options", EmptyDict)
        with_user == DictPut(bstack_options, "userName", user)
        with_key == DictPut(with_user, "accessKey", key)
    IN  DictPut(cap, "bstack:options", with_key)

\* What get_browserstack_driver does up to the call of webdriver.Remote:
\* raised (RuntimeError, lines 257-258), the caller's cap as it leaves it, and
\* the session-creation requests it is about to issue.
get_browserstack_driver(cap, env) ==
    LET user == EnvGet(env, "BROWSERSTACK_USERNAME")
        key == EnvGet(env, "BROWSERSTACK_ACCESS_KEY")
    IN  IF FalsyStr(user) \/ FalsyStr(key)
        THEN [raised |-> TRUE, cap |-> cap, requests |-> <<>>]
        ELSE LET options == OptionsFor(LowerName(DictGet(cap, "browserName", "")))
                 cap2 == InjectAuth(cap, user, key)
             IN  [raised |-> FALSE,
                  cap |-> cap2,
                  requests |-> <<[url |-> "https://hub-cloud.browserstack.com/wd/hub",
                                  options |-> options,
                                  capabilities |-> cap2]>>]

(***************************************************************************)
(* The capability mappings and environments get_browserstack_driver is     *)
(* called with.                                                            *)
(***************************************************************************)
Entry(k, v, present) == IF present THEN (k :> v) ELSE EmptyDict

BundleValues ==
    [os |-> "Windows", sessionName |-> "ELPAIS-1", userName |-> "stale-user",
     accessKey |-> "stale-key"]

Bundles == {[k \in keys |-> BundleValues[k]] : keys \in SUBSET (DOMAIN BundleValues)}

BareCaps ==
    {Entry("browserName", bn, bn # NoneStr) @@ Entry("browserVersion", "latest", bv) :
        bn \in {NoneStr, "Chrome", "Firefox", "Edge", "Safari", "Opera"},
        bv \in BOOLEAN}

CapPool == BareCaps \cup {c @@ ("bstack:options" :> bo) : c \in BareCaps, bo \in Bundles}

EnvValues(name, values) == {Entry(name, v, v # NoneStr) : v \in values}

BrowserStackEnvs ==
    {u @@ k : u \in EnvValues("BROWSERSTACK_USERNAME", {NoneStr, "", "user"}),
              k \in EnvValues("BROWSERSTACK_ACCESS_KEY", {NoneStr, "", "key"})}

DriverInit ==
    /\ fn_pc = "call"
    /\ fn_args \in [cap : CapPool, env : BrowserStackEnvs]
    /\ fn_ret = None

CallGetDriver ==
    /\ fn_pc = "call"
    /\ fn_pc' = "returned"
    /\ fn_ret' = get_browserstack_driver(fn_args.cap, fn_args.env)
    /\ UNCHANGED fn_args

(***************************************************************************)
(* One article: the body of the loop of scrape_opinion_articles,           *)
(* lines 104-179.                                                          *)
(***************************************************************************)
NoTitleFound == <<"N", "o", " ", "t", "i", "t", "l", "e", " ", "f", "o", "u", "n", "d">>

Sol == <<"S", "o", "l">>

NoBodyFound == <<"No article body container found.">>

\* paras[:40]
BodyFallbackCap == 40

\* [:50]
SlugCap == 50

\* max_articles=5
MaxArticles == 5

\* lines 112-113
ExtractTitle(page) == IF page.h1 = None THEN NoTitleFound ELSE page.h1

RECURSIVE NonEmpty(_)
NonEmpty(paras) ==
    IF paras = <<>> THEN <<>>
    ELSE IF Head(paras) = "" THEN NonEmpty(Tail(paras))
         ELSE <<Head(paras)>> \o NonEmpty(Tail(paras))

\* lines 116-128; the body is the sequence of the paragraphs joined by blank lines
ExtractBody(page) ==
    IF page.body_container # None THEN NonEmpty(page.body_container)
    ELSE IF page.main # None THEN Slice(page.main, BodyFallbackCap)
         ELSE NoBodyFound

\* lines 132-146
ExtractImgUrl(page) ==
    IF ~FalsyStr(page.og_image) THEN page.og_image
    ELSE IF ~FalsyStr(page.figure_src) THEN page.figure_src
         ELSE page.figure_data_src

\* lines 162-168
ExtFor(content_type) ==
    IF FalsyStr(content_type) THEN ".jpg"
    ELSE CASE content_type = "image/jpeg" -> ".jpg"
           [] content_type = "image/png" -> ".png"
           [] content_type = "image/gif" -> ".gif"
           [] content_type = "image/webp" -> ".webp"
           [] OTHER -> ".jpg"

\* the pieces of a URL that end in a slash
SlashPieces == {"/opinion/", "/sport/"}

\* url.split('/')[-1]: what follows the last slash
LastSegment(url) ==
    LET slashes == {i \in 1..Len(url) : url[i] \in SlashPieces}
        last == IF slashes = {} THEN 0
                ELSE CHOOSE i \in slashes : \A j \in slashes : j <= i
    IN  SubSeq(url, last + 1, Len(url))

RECURSIVE Without(_, _)
Without(s, piece) ==
    IF s = <<>> THEN <<>>
    ELSE IF Head(s) = piece THEN Without(Tail(s), piece)
         ELSE <<Head(s)>> \o Without(Tail(s), piece)

\* url.split('/')[-1].replace('.html', '')[:50]
UrlSlug(url) == Slice(Without(LastSegment(url), ".html"), SlugCap)

ImageFile(url, ext) == <<"images">> \o UrlSlug(url) \o <<ext>>

\* a plausible slip: the status of the reply is not looked at
FetchCoverAnyStatus(url, page, http) ==
    IF FalsyStr(ExtractImgUrl(page)) THEN [cover_path |-> None, written |-> {}]
    ELSE IF http.raises THEN [cover_path |-> None, written |-> {}]
    ELSE LET fname == ImageFile(url, ExtFor(http.content_type))
         IN  [cover_path |-> fname, written |-> {fname}]

\* lines 148-175: the cover image path and the files written, for a rendered
\* page and the outcome of the HTTP request and of the write
FetchCover(url, page, http) ==
    IF FalsyStr(ExtractImgUrl(page)) THEN [cover_path |-> None, written |-> {}]
    ELSE IF http.raises THEN [cover_path |-> None, written |-> {}]
    ELSE IF http.status_code # 200 THEN [cover_path |-> None, written |-> {}]
    ELSE LET fname == ImageFile(url, ExtFor(http.content_type))
         IN  IF http.write_raises
             THEN [cover_path |-> None, written |-> {fname}]
             ELSE [cover_path |-> fname, written |-> {fname}]

\* line 177
ArticleRecord(url, page, cover_path) ==
    [url |-> url, title_es |-> ExtractTitle(page), body_es |-> ExtractBody(page),
     cover_image |-> cover_path, title_en |-> None]

\* a plausible slip: a URL whose iteration raised is tried again
NextIndexRetryOnRaise(idx, n, raised) == IF raised THEN idx ELSE idx + 1

\* a plausible slip: an exception in one iteration ends the loop
NextIndexAbortOnRaise(idx, n, raised) == IF raised THEN n ELSE idx + 1

\* where the loop goes after an iteration, raised or not: to the next URL
NextIndex(idx, n, raised) == idx + 1

(***************************************************************************)
(* What the browser and the network may answer.                            *)
(***************************************************************************)
FullPage ==
    [h1 |-> Sol, body_container |-> <<"uno", "", "dos">>, main |-> None,
     og_image |-> "https://img/og", figure_src |-> NoneStr, figure_data_src |-> NoneStr]

BarePage ==
    [h1 |-> None, body_container |-> None, main |-> None,
     og_image |-> NoneStr, figure_src |-> NoneStr, figure_data_src |-> NoneStr]

ArticlePages == {FullPage, BarePage}

\* what the site serves at a URL in the full flow
ArticlePagesAt(url) == IF Contains(url, "a") THEN ArticlePages ELSE {FullPage}

HttpRaises == [raises |-> TRUE, status_code |-> 0, content_type |-> NoneStr, write_raises |-> FALSE]

Http404 == [raises |-> FALSE, status_code |-> 404, content_type |-> "text/html", write_raises |-> FALSE]

Http200Png == [raises |-> FALSE, status_code |-> 200, content_type |-> "image/png", write_raises |-> FALSE]

HttpReplies == {HttpRaises, Http404, Http200Png}

\* the replies drawn in the full flow
FlowHttpReplies == {Http200Png}

LandingPages == {<<RelA, AbsA>>, <<RelB, RelA>>}

\* lines 105-179: one iteration of the loop for one URL, on its own: the records
\* it appends and the files it writes.  nav_raises: driver.get or the parsing
\* of the page raised.
ScrapeOne(url, nav_raises, page, http) ==
    IF nav_raises THEN [records |-> <<>>, written |-> {}]
    ELSE LET c == FetchCover(url, page, http)
         IN  [records |-> <<ArticleRecord(url, page, c.cover_path)>>,
              written |-> c.written]

FigurePage == [BarePage EXCEPT !.h1 = Sol, !.figure_src = "/img/fig.png"]

LazyFigurePage == [BarePage EXCEPT !.main = <<"uno">>, !.figure_data_src = "//img/lazy"]

Http500 == [Http404 EXCEPT !.status_code = 500]

Http200Jpeg == [Http200Png EXCEPT !.content_type = "image/jpeg"]

Http200NoType == [Http200Png EXCEPT !.content_type = NoneStr]

Http200WriteRaises == [Http200Png EXCEPT !.write_raises = TRUE]

ArticleHttpReplies ==
    HttpReplies \cup {Http500, Http200Jpeg, Http200NoType, Http200WriteRaises}

ArticleInit ==
    /\ fn_pc = "call"
    /\ fn_args \in [url : {FullUrl(RelA), FullUrl(RelB), AbsC},
                    nav_raises : BOOLEAN,
                    page : ArticlePages \cup {FigurePage, LazyFigurePage},
                    http : ArticleHttpReplies]
    /\ fn_ret = None

CallScrapeOne ==
    /\ fn_pc = "call"
    /\ fn_pc' = "returned"
    /\ fn_ret' = ScrapeOne(fn_args.url, fn_args.nav_raises, fn_args.page, fn_args.http)
    /\ UNCHANGED fn_args

(***************************************************************************)
(* Translation: translate_texts_google, lines 185-223, and its callers.    *)
(***************************************************************************)
TRANSLATION_FAILED == <<"(", "t", "r", "a", "n", "s", "l", "a", "t", "i", "o", "n", " ", "f", "a", "i", "l", "e", "d", ")">>

GOOGLE_LIB_MISSING == <<"(", "g", "o", "o", "g", "l", "e", " ", "l", "i", "b", " ", "m", "i", "s", "s", "i", "n", "g", ")">>

Sun == <<"S", "u", "n">>

\* what the translation service answers for a text
ServiceTranslation(text) == IF text = Sol THEN Sun ELSE text

\* a plausible slip: a default project stands in when none is configured
ResolveProjectIdOrDefault(env, creds) ==
    IF "GOOGLE_CLOUD_PROJECT" \in DOMAIN env THEN env["GOOGLE_CLOUD_PROJECT"]
    ELSE "default-project"

\* lines 190-207: the project id, NoneStr when it cannot be determined
ResolveProjectId(env, creds) ==
    LET from_env ==
            IF ~FalsyStr(EnvGet(env, "GOOGLE_CLOUD_PROJECT"))
            THEN EnvGet(env, "GOOGLE_CLOUD_PROJECT")
            ELSE EnvGet(env, "GCP_PROJECT")
    IN  IF ~FalsyStr(from_env) THEN from_env
        ELSE IF FalsyStr(EnvGet(env, "GOOGLE_APPLICATION_CREDENTIALS")) THEN from_env
        ELSE IF ~creds.readable THEN from_env
        ELSE DictGet(creds.json, "project_id", NoneStr)

\* line 222
FirstOrEmpty(translations) == IF translations = <<>> THEN <<>> ELSE translations[1]

\* ['(translation failed)'] * len(titles)
Placeholders(text, n) == [i \in 1..n |-> text]

\* a plausible slip: the titles translated before the failure are kept
OnTranslateFailureKeepDone(responses, n) ==
    [i \in 1..n |-> IF i <= Len(responses) THEN responses[i] ELSE TRANSLATION_FAILED]

\* lines 329-331: the list the caller builds when the translation raised
OnTranslateFailure(responses, n) == Placeholders(TRANSLATION_FAILED, n)

(***************************************************************************)
(* The merge and the dedupe of the parallel run.                           *)
(***************************************************************************)
\* a plausible slip: append(fut.result()[0]) instead of extend
ExtendFirstRecord(all, future) ==
    IF future.exc \/ future.results = <<>> THEN all ELSE Append(all, future.results[1])

\* a plausible slip: results_all = fut.result() instead of extend
ExtendOverwrite(all, future) == IF future.exc THEN all ELSE future.results

\* lines 377-380: results_all after one future is taken
Extend(all, future) == IF future.exc THEN all ELSE all \o future.results

\* a plausible slip: fut.result() outside a try, so a worker's exception leaves
\* the loop
AfterFutureUncaught(future) == IF future.exc THEN "raised" ELSE "collect"

\* lines 377-380: where the main thread is after one future is taken
AfterFuture(future) == "collect"

\* a plausible slip: a pool of one thread
PoolSizeOne(caps) == IF Len(caps) = 0 THEN 0 ELSE 1

\* line 374
PoolSize(caps) == Len(caps)

\* a plausible slip: only a repeat of the record just before is dropped
RECURSIVE DedupeAdjacent(_, _)
DedupeAdjacent(rs, seen_urls) ==
    IF rs = <<>> THEN <<>>
    ELSE LET r == Head(rs)
         IN  IF r.url \notin seen_urls
             THEN <<r>> \o DedupeAdjacent(Tail(rs), {r.url})
             ELSE DedupeAdjacent(Tail(rs), {r.url})

RECURSIVE DedupeByUrl(_, _)
\* lines 461-466
DedupeByUrl(rs, seen_urls) ==
    IF rs = <<>> THEN <<>>
    ELSE LET r == Head(rs)
         IN  IF r.url \notin seen_urls
             THEN <<r>> \o DedupeByUrl(Tail(rs), seen_urls \cup {r.url})
             ELSE DedupeByUrl(Tail(rs), seen_urls)

(***************************************************************************)
(* The state the program starts in.                                        *)
(***************************************************************************)
\* the capabilities of __main__, lines 403-450
ExampleCaps ==
    << [browserName |-> "Chrome", browserVersion |-> "latest"]
         @@ ("bstack:options" :>
               [os |-> "Windows", osVersion |-> "11",
                sessionName |-> "ELPAIS-1 (Win11 Chrome)", debug |-> "True"]),
       [browserName |-> "Firefox", browserVersion |-> "latest"]
         @@ ("bstack:options" :>
               [os |-> "Windows", osVersion |-> "10",
                sessionName |-> "ELPAIS-2 (Win10 Firefox)"]),
       [browserName |-> "Safari"]
         @@ ("bstack:options" :>
               [deviceName |-> "iPhone 14", realMobile |-> "true", osVersion |-> "16",
                sessionName |-> "ELPAIS-3 (iPhone 14)"]),
       [browserName |-> "Chrome"]
         @@ ("bstack:options" :>
               [deviceName |-> "Samsung Galaxy S22", realMobile |-> "true",
                osVersion |-> "12.0", sessionName |-> "ELPAIS-4 (Galaxy S22)"]),
       [browserName |-> "Edge", browserVersion |-> "latest"]
         @@ ("bstack:options" :>
               [os |-> "OS X", osVersion |-> "Ventura",
                sessionName |-> "ELPAIS-5 (Mac Edge)"]) >>

CapsOfLength(n) == [i \in 1..n |-> ExampleCaps[((i - 1) % Len(ExampleCaps)) + 1]]

BrowserStackSet ==
    ("BROWSERSTACK_USERNAME" :> "user") @@ ("BROWSERSTACK_ACCESS_KEY" :> "key")

BrowserStackNoKey == ("BROWSERSTACK_USERNAME" :> "user")

NoCredFile == [readable |-> FALSE, json |-> EmptyDict]

\* the translation set-ups: the import, the environment, the credentials file
GoogleConfigs ==
    { [has |-> FALSE, env |-> EmptyDict, creds |-> NoCredFile],
      [has |-> TRUE, env |-> ("GOOGLE_CLOUD_PROJECT" :> "proj"), creds |-> NoCredFile],
      [has |-> TRUE, env |-> ("GOOGLE_APPLICATION_CREDENTIALS" :> "creds.json"),
       creds |-> [readable |-> TRUE, json |-> ("client_email" :> "x")]] }

Workers == 1..MaxCaps

NewWorker ==
    [pc |-> "unsubmitted", starts |-> 0, driver |-> "none", quits |-> 0,
     session_requests |-> 0, article_urls |-> <<>>, idx |-> 0, attempts |-> <<>>,
     results |-> <<>>, exc |-> FALSE]

OutOfScope == [NewWorker EXCEPT !.pc = "out_of_scope"]

FnIdle == fn_pc = "idle" /\ fn_args = None /\ fn_ret = None

MainInit ==
    /\ mode \in {"local", "bs"}
    /\ \E g \in GoogleConfigs, bs \in {BrowserStackSet, BrowserStackNoKey} :
         /\ HAS_GOOGLE = g.has
         /\ cred_file = g.creds
         /\ environ = IF mode = "bs" THEN bs @@ g.env ELSE g.env
    /\ \E n \in 0..MaxCaps :
         capabilities_list = IF mode = "bs" THEN CapsOfLength(n) ELSE <<>>
    /\ main_pc = IF mode = "bs" THEN "bs_call" ELSE "local_get_driver"
    /\ uncaught = ""
    /\ max_workers = 0
    /\ wk = [w \in Workers |-> NewWorker]
    /\ finish_order = <<>>
    /\ first_batch = {}
    /\ yielded = <<>>
    /\ results_all = <<>>
    /\ results = <<>>
    /\ unique_results = <<>>
    /\ titles = <<>>
    /\ calls = <<>>
    /\ translated = None
    /\ repeated = None
    /\ files = {}

Init == FnIdle /\ MainInit

MainIdle ==
    /\ mode = "idle"
    /\ HAS_GOOGLE = FALSE
    /\ environ = EmptyDict
    /\ cred_file = NoCredFile
    /\ capabilities_list = <<>>
    /\ main_pc = "idle"
    /\ uncaught = ""
    /\ max_workers = 0
    /\ wk = <<>>
    /\ finish_order = <<>>
    /\ first_batch = {}
    /\ yielded = <<>>
    /\ results_all = <<>>
    /\ results = <<>>
    /\ unique_results = <<>>
    /\ titles = <<>>
    /\ calls = <<>>
    /\ translated = None
    /\ repeated = None
    /\ files = {}

(***************************************************************************)
(* The Session Worker: browserstack_worker, lines 359-368, and             *)
(* scrape_opinion_articles, lines 60-180.                                  *)
(***************************************************************************)
Running(w) == wk[w].pc \in {"get_driver", "landing", "articles", "quit"}

tail_vars == <<titles, calls, translated, repeated>>

main_thread_vars ==
    <<main_pc, uncaught, max_workers, first_batch, yielded, results_all, results,
      unique_results>>

config_vars == <<mode, HAS_GOOGLE, environ, cred_file>>

\* a pool thread takes the work item of capability w
WorkerStart(w) ==
    /\ mode = "bs"
    /\ wk[w].pc = "pending"
    /\ Cardinality({v \in Workers : Running(v)}) < max_workers
    /\ wk' = [wk EXCEPT ![w].pc = "get_driver", ![w].starts = @ + 1]
    /\ UNCHANGED <<fn_vars, config_vars, capabilities_list, main_thread_vars,
                   finish_order, tail_vars, files>>

\* line 360: get_browserstack_driver(cap); an exception ends the worker before the try
WorkerGetDriver(w) ==
    /\ mode = "bs"
    /\ wk[w].pc = "get_driver"
    /\ LET r == get_browserstack_driver(capabilities_list[w], environ)
       IN  \/ /\ r.raised
              /\ wk' = [wk EXCEPT ![w].pc = "done", ![w].exc = TRUE]
              /\ finish_order' = Append(finish_order, w)
              /\ UNCHANGED capabilities_list
           \/ /\ ~r.raised
              /\ capabilities_list' = [capabilities_list EXCEPT ![w] = r.cap]
              /\ \E created \in BOOLEAN :
                   IF created
                   THEN /\ wk' = [wk EXCEPT ![w].pc = "landing", ![w].driver = "open",
                                            ![w].session_requests = @ + Len(r.requests)]
                        /\ UNCHANGED finish_order
                   ELSE /\ wk' = [wk EXCEPT ![w].pc = "done", ![w].exc = TRUE,
                                            ![w].session_requests = @ + Len(r.requests)]
                        /\ finish_order' = Append(finish_order, w)
    /\ UNCHANGED <<fn_vars, config_vars, main_thread_vars, tail_vars, files>>

\* lines 65-100: the landing page and the article URLs found on it
LoadLanding(w) ==
    /\ wk[w].pc = "landing"
    /\ \/ wk' = [wk EXCEPT ![w].pc = "quit", ![w].exc = TRUE]
       \/ \E page \in LandingPages :
            LET urls == ExtractArticleLinks(page, MaxArticles)
            IN  wk' = [wk EXCEPT ![w].article_urls = urls,
                                 ![w].pc = IF urls = <<>> THEN "quit" ELSE "articles"]
    /\ UNCHANGED <<fn_vars, config_vars, capabilities_list, main_thread_vars,
                   finish_order, tail_vars, files>>

\* lines 104-179: one iteration of the loop over article_urls
ScrapeArticle(w) ==
    /\ wk[w].pc = "articles"
    /\ LET n == Len(wk[w].article_urls)
           url == wk[w].article_urls[wk[w].idx + 1]
       IN  \/ LET next == NextIndex(wk[w].idx, n, TRUE)
              IN  /\ wk' = [wk EXCEPT ![w].attempts = Append(@, [url |-> url, raised |-> TRUE]),
                                      ![w].idx = next,
                                      ![w].pc = IF next >= n THEN "quit" ELSE "articles"]
                  /\ UNCHANGED files
           \/ \E page \in ArticlePagesAt(url), http \in FlowHttpReplies :
                LET c == FetchCover(url, page, http)
                    next == NextIndex(wk[w].idx, n, FALSE)
                IN  /\ wk' = [wk EXCEPT ![w].attempts = Append(@, [url |-> url, raised |-> FALSE]),
                                        ![w].results = Append(@, ArticleRecord(url, page, c.cover_path)),
                                        ![w].idx = next,
                                        ![w].pc = IF next >= n THEN "quit" ELSE "articles"]
                    /\ files' = files \cup c.written
    /\ UNCHANGED <<fn_vars, config_vars, capabilities_list, main_thread_vars,
                   finish_order, tail_vars>>

\* lines 364-368: driver.quit() in the finally, its exception swallowed; the future
\* then holds the result or the exception of the scrape
WorkerQuit(w) ==
    /\ mode = "bs"
    /\ wk[w].pc = "quit"
    /\ \E quit_raises \in BOOLEAN :
         wk' = [wk EXCEPT ![w].pc = "done", ![w].quits = @ + 1, ![w].driver = "quit"]
    /\ finish_order' = Append(finish_order, w)
    /\ UNCHANGED <<fn_vars, config_vars, capabilities_list, main_thread_vars,
                   tail_vars, files>>

(***************************************************************************)
(* The Parallel Orchestrator: run_on_browserstack_parallel, lines 371-381. *)
(***************************************************************************)
\* line 374: ThreadPoolExecutor(max_workers=...) raises ValueError for a size of 0
BsCreateExecutor ==
    /\ main_pc = "bs_call"
    /\ \/ /\ PoolSize(capabilities_list) <= 0
          /\ uncaught' = "ValueError"
          /\ main_pc' = "raised"
          /\ UNCHANGED max_workers
       \/ /\ PoolSize(capabilities_list) > 0
          /\ max_workers' = PoolSize(capabilities_list)
          /\ main_pc' = "submit"
          /\ UNCHANGED uncaught
    /\ UNCHANGED <<fn_vars, config_vars, capabilities_list, wk, finish_order,
                   first_batch, yielded, results_all, results, unique_results,
                   tail_vars, files>>

Submitted == Cardinality({w \in Workers : wk[w].pc # "unsubmitted"})

\* line 375: ex.submit(browserstack_worker, cap), one capability after the other
Submit ==
    /\ main_pc = "submit"
    /\ Submitted < Len(capabilities_list)
    /\ wk' = [wk EXCEPT ![Submitted + 1].pc = "pending"]
    /\ UNCHANGED <<fn_vars, config_vars, capabilities_list, main_thread_vars,
                   finish_order, tail_vars, files>>

\* line 376: as_completed(futures) starts; the futures finished by now form a set
StartAsCompleted ==
    /\ main_pc = "submit"
    /\ Submitted = Len(capabilities_list)
    /\ first_batch' = {w \in Workers : wk[w].pc = "done"}
    /\ main_pc' = "collect"
    /\ UNCHANGED <<fn_vars, config_vars, capabilities_list, wk, finish_order, uncaught,
                   max_workers, yielded, results_all, results, unique_results,
                   tail_vars, files>>

\* a plausible slip: only the futures that were finished when the loop started
\* are taken, the others are never waited for
MayYieldFirstBatchOnly(w) ==
    /\ wk[w].pc = "done"
    /\ w \notin Range(yielded)
    /\ w \in first_batch

\* the future as_completed may yield next: one of the first batch in any order,
\* then the others in the order they finish
MayYield(w) ==
    /\ wk[w].pc = "done"
    /\ w \notin Range(yielded)
    /\ IF first_batch \ Range(yielded) # {}
       THEN w \in first_batch
       ELSE \A i, j \in 1..Len(finish_order) :
              (finish_order[j] = w /\ i < j) => finish_order[i] \in Range(yielded)

\* lines 376-380: one turn of the loop
Collect(w) ==
    /\ main_pc = "collect"
    /\ MayYield(w)
    /\ yielded' = Append(yielded, w)
    /\ results_all' = Extend(results_all, wk[w])
    /\ main_pc' = AfterFuture(wk[w])
    /\ uncaught' = IF AfterFuture(wk[w]) = "raised" THEN "worker" ELSE uncaught
    /\ UNCHANGED <<fn_vars, config_vars, capabilities_list, wk, finish_order,
                   max_workers, first_batch, results, unique_results, tail_vars, files>>

\* a plausible slip: the list is returned from inside the loop, with a pool
\* that is not waited for
ReturnAtFirstFuture(ys, caps) == Len(ys) >= 1

\* lines 376-381: as_completed has yielded every future, and the with block
\* has joined the pool
AllCollected(ys, caps) == Len(ys) = Len(caps)

\* line 381, after the with block has joined the pool
BsReturn ==
    /\ main_pc = "collect"
    /\ AllCollected(yielded, capabilities_list)
    /\ results' = results_all
    /\ main_pc' = "bs_returned"
    /\ UNCHANGED <<fn_vars, config_vars, capabilities_list, wk, finish_order, uncaught,
                   max_workers, first_batch, yielded, results_all, unique_results,
                   tail_vars, files>>

\* lines 456-466 of __main__.  The pool, the futures and results_all were locals
\* of run_on_browserstack_parallel: from here on they are out of scope.
DedupeResults ==
    /\ main_pc = "bs_returned"
    /\ IF results = <<>>
       THEN main_pc' = "exit" /\ UNCHANGED unique_results
       ELSE main_pc' = "translate" /\ unique_results' = DedupeByUrl(results, {})
    /\ wk' = [w \in Workers |-> OutOfScope]
    /\ finish_order' = <<>>
    /\ first_batch' = {}
    /\ yielded' = <<>>
    /\ results_all' = <<>>
    /\ max_workers' = 0
    /\ UNCHANGED <<fn_vars, config_vars, capabilities_list, uncaught, results,
                   tail_vars, files>>

(***************************************************************************)
(* The local flow: run_full_flow_local, lines 306-320.                     *)
(***************************************************************************)
\* line 309: get_local_driver('chrome'); when it raises, the except returns and
\* the finally finds no driver
LocalGetDriver ==
    /\ main_pc = "local_get_driver"
    /\ \/ /\ wk' = [wk EXCEPT ![1].pc = "landing", ![1].starts = @ + 1,
                              ![1].driver = "open"]
          /\ main_pc' = "local_scrape"
       \/ /\ wk' = [wk EXCEPT ![1].pc = "done", ![1].starts = @ + 1, ![1].exc = TRUE]
          /\ main_pc' = "done"
    /\ UNCHANGED <<fn_vars, config_vars, capabilities_list, finish_order, uncaught,
                   max_workers, first_batch, yielded, results_all, results,
                   unique_results, tail_vars, files>>

\* lines 311-320: the finally calls driver.quit() unguarded; then the except's
\* return, or "if not results"
LocalFinally ==
    /\ main_pc = "local_scrape"
    /\ wk[1].pc = "quit"
    /\ \E quit_raises \in BOOLEAN :
         /\ wk' = [wk EXCEPT ![1].pc = "done", ![1].quits = @ + 1, ![1].driver = "quit"]
         /\ IF quit_raises
            THEN main_pc' = "raised" /\ uncaught' = "driver.quit" /\ UNCHANGED results
            ELSE IF wk[1].exc
                 THEN main_pc' = "done" /\ UNCHANGED <<uncaught, results>>
                 ELSE /\ results' = wk[1].results
                      /\ main_pc' = IF wk[1].results = <<>> THEN "done" ELSE "translate"
                      /\ UNCHANGED uncaught
    /\ UNCHANGED <<fn_vars, config_vars, capabilities_list, finish_order,
                   max_workers, first_batch, yielded, results_all,
                   unique_results, tail_vars, files>>

(***************************************************************************)
(* Translation, report and analysis: lines 323-354 and 470-502.            *)
(***************************************************************************)
WorkList == IF mode = "bs" THEN unique_results ELSE results

\* a plausible slip: translate_texts_google is called whatever HAS_GOOGLE is
TranslationAttemptedAlways(has_google) == TRUE

\* lines 325 and 472: "if HAS_GOOGLE" guards the call of translate_texts_google
TranslationAttempted(has_google) == has_google

Responses(cs) == [i \in 1..Len(cs) |-> FirstOrEmpty(cs[i].translations)]

\* lines 323-334 and translate_texts_google up to its loop, lines 186-210
TranslateBegin ==
    /\ main_pc = "translate"
    /\ titles' = [i \in 1..Len(WorkList) |-> WorkList[i].title_es]
    /\ IF ~TranslationAttempted(HAS_GOOGLE)
       THEN /\ translated' = Placeholders(GOOGLE_LIB_MISSING, Len(WorkList))
            /\ main_pc' = "assign"
       ELSE \E client_raises \in BOOLEAN :
              IF \/ ~HAS_GOOGLE
                 \/ client_raises
                 \/ FalsyStr(ResolveProjectId(environ, cred_file))
              THEN /\ translated' = OnTranslateFailure(<<>>, Len(WorkList))
                   /\ main_pc' = "assign"
              ELSE /\ translated' = translated
                   /\ main_pc' = IF WorkList = <<>> THEN "assign" ELSE "translating"
    /\ UNCHANGED <<fn_vars, config_vars, capabilities_list, wk, finish_order, uncaught,
                   max_workers, first_batch, yielded, results_all, results,
                   unique_results, calls, repeated, files>>

\* lines 212-223: one translate_text call
TranslateOne ==
    /\ main_pc = "translating"
    /\ Len(calls) < Len(titles)
    /\ LET text == titles[Len(calls) + 1]
       IN  \/ /\ calls' = Append(calls, [text |-> text, raised |-> TRUE, translations |-> <<>>])
              /\ translated' = OnTranslateFailure(Responses(calls), Len(titles))
              /\ main_pc' = "assign"
           \/ \E translations \in {<<>>, <<ServiceTranslation(text)>>} :
                /\ calls' = Append(calls, [text |-> text, raised |-> FALSE,
                                           translations |-> translations])
                /\ IF Len(calls') = Len(titles)
                   THEN translated' = Responses(calls') /\ main_pc' = "assign"
                   ELSE translated' = translated /\ main_pc' = "translating"
    /\ UNCHANGED <<fn_vars, config_vars, capabilities_list, wk, finish_order, uncaught,
                   max_workers, first_batch, yielded, results_all, results,
                   unique_results, titles, repeated, files>>

\* a plausible slip: the translation is written over the Spanish title as well
SetTitlesOverSource(rs, ts) ==
    [i \in 1..Len(rs) |-> [rs[i] EXCEPT !.title_en = ts[i], !.title_es = ts[i]]]

SetTitles(rs, ts) == [i \in 1..Len(rs) |-> [rs[i] EXCEPT !.title_en = ts[i]]]

\* lines 336-337 and 483-484
AssignTitles ==
    /\ main_pc = "assign"
    /\ IF mode = "bs"
       THEN unique_results' = SetTitles(unique_results, translated) /\ UNCHANGED results
       ELSE results' = SetTitles(results, translated) /\ UNCHANGED unique_results
    /\ main_pc' = "report"
    /\ UNCHANGED <<fn_vars, config_vars, capabilities_list, wk, finish_order, uncaught,
                   max_workers, first_batch, yielded, results_all, tail_vars, files>>

\* lines 339-354 and 486-502
ReportAndAnalyze ==
    /\ main_pc = "report"
    /\ repeated' = analyze_translated_headers([i \in 1..Len(WorkList) |-> WorkList[i].title_en])
    /\ main_pc' = "done"
    /\ UNCHANGED <<fn_vars, config_vars, capabilities_list, wk, finish_order, uncaught,
                   max_workers, first_batch, yielded, results_all, results,
                   unique_results, titles, calls, translated, files>>

Next ==
    \/ \E w \in Workers : WorkerStart(w)
    \/ \E w \in Workers : WorkerGetDriver(w)
    \/ \E w \in Workers : LoadLanding(w)
    \/ \E w \in Workers : ScrapeArticle(w)
    \/ \E w \in Workers : WorkerQuit(w)
    \/ BsCreateExecutor
    \/ Submit
    \/ StartAsCompleted
    \/ \E w \in Workers : Collect(w)
    \/ BsReturn
    \/ DedupeResults
    \/ LocalGetDriver
    \/ LocalFinally
    \/ TranslateBegin
    \/ TranslateOne
    \/ AssignTitles
    \/ ReportAndAnalyze

Spec == Init /\ [][Next]_vars

LinksStart == LinksInit /\ MainIdle

LinksNext == CallExtractLinks /\ UNCHANGED main_vars

SpecLinks == LinksStart /\ [][LinksNext]_vars

AnalyzeStart == AnalyzeInit /\ MainIdle

AnalyzeNext == CallAnalyze /\ UNCHANGED main_vars

SpecAnalyze == AnalyzeStart /\ [][AnalyzeNext]_vars

\* The parallel run on its own, from the call of run_on_browserstack_parallel to
\* its return, with the scheduling it runs under: every pool thread and the
\* main thread keep being scheduled, and every external call returns or raises.
\* No step of it reads the translation set-up, so one set-up stands for all.
ParallelStart == Init /\ mode = "bs" /\ ~HAS_GOOGLE

WorkerNext(w) ==
    \/ WorkerStart(w)
    \/ WorkerGetDriver(w)
    \/ (mode = "bs" /\ LoadLanding(w))
    \/ (mode = "bs" /\ ScrapeArticle(w))
    \/ WorkerQuit(w)

OrchestratorNext ==
    \/ BsCreateExecutor
    \/ Submit
    \/ StartAsCompleted
    \/ \E w \in Workers : Collect(w)
    \/ BsReturn

ParallelNext == (\E w \in Workers : WorkerNext(w)) \/ OrchestratorNext

SpecParallel ==
    /\ ParallelStart
    /\ [][ParallelNext]_vars
    /\ \A w \in Workers : WF_vars(WorkerNext(w))
    /\ WF_vars(OrchestratorNext)

ArticleStart == ArticleInit /\ MainIdle

ArticleNext == CallScrapeOne /\ UNCHANGED main_vars

SpecArticle == ArticleStart /\ [][ArticleNext]_vars

DriverStart == DriverInit /\ MainIdle

DriverNext == CallGetDriver /\ UNCHANGED main_vars

SpecDriver == DriverStart /\ [][DriverNext]_vars

(***************************************************************************)
(* Properties.                                                             *)
(***************************************************************************)
BsWorkers == 1..Len(capabilities_list)

Urls(rs) == {rs[i].url : i \in 1..Len(rs)}

UrlSeq(rs) == [i \in 1..Len(rs) |-> rs[i].url]

\* sub occurs in s as one contiguous block
OccursIn(sub, s) ==
    \E p \in 0..(Len(s) - Len(sub)) : SubSeq(s, p + 1, p + Len(sub)) = sub

InTail == main_pc \in {"translate", "translating", "assign", "report", "done"}

\* C1: in the parallel run over at least one capability, when a worker has
\* raised, the run does not raise, it is never stuck once every worker has
\* finished, and the list it returns holds, as one block, the records of
\* every other worker that returned.
C1_SiblingRecordsKept ==
    (/\ mode = "bs"
     /\ \E v \in BsWorkers : wk[v].pc = "done" /\ wk[v].exc)
    => /\ uncaught = ""
       /\ main_pc # "raised"
       /\ (main_pc = "collect" /\ \A w \in BsWorkers : wk[w].pc = "done")
            => \/ \E w \in BsWorkers : MayYield(w)
               \/ Len(yielded) = Len(capabilities_list)
       /\ main_pc = "bs_returned"
            => \A w \in BsWorkers : ~wk[w].exc => OccursIn(wk[w].results, results)

\* C1 witness: the run has returned, one worker raised, and another one
\* returned records.
C1_Witness ==
    /\ mode = "bs"
    /\ main_pc = "bs_returned"
    /\ \E v, w \in BsWorkers :
         /\ v # w
         /\ wk[v].exc
         /\ ~wk[w].exc
         /\ wk[w].results # <<>>

\* C2: the list handed to the translation holds each url once, and for the
\* parallel run its length is the number of distinct urls the workers
\* returned, which is the size of the union of their url sets.
C2_MergedUrlsUnique ==
    /\ InTail
         => /\ \A i, j \in 1..Len(WorkList) :
                 WorkList[i].url = WorkList[j].url => i = j
            /\ mode = "bs" => Len(unique_results) = Cardinality(Urls(results))
    /\ (mode = "bs" /\ main_pc = "bs_returned")
         => Urls(results) = UNION {Urls(wk[w].results) : w \in {v \in BsWorkers : ~wk[v].exc}}

\* C2 witness: two workers returned the same url, and the dedupe dropped a record.
C2_Witness ==
    /\ mode = "bs"
    /\ main_pc = "translate"
    /\ Len(unique_results) < Len(results)
    /\ Len(unique_results) >= 2

\* C3: a worker that has ended has closed the session it acquired once, and
\* none it did not acquire; driver.quit() is never called twice; and an
\* exception of driver.quit() does not leave the worker.
C3_ClosedOnceNoEscape ==
    /\ uncaught # "driver.quit"
    /\ \A w \in DOMAIN wk :
         /\ wk[w].quits <= 1
         /\ wk[w].pc = "done" => wk[w].quits = (IF wk[w].driver = "none" THEN 0 ELSE 1)

\* C4: once the loop over the article URLs of a worker has ended, every URL
\* was attempted once and in order, the records are those of the attempts
\* that did not raise, in order, and the scrape has not raised.
C4_FailedArticleSkipped ==
    \A w \in DOMAIN wk :
        /\ wk[w].pc = "articles"
             => UrlSeq(wk[w].attempts) = SubSeq(wk[w].article_urls, 1, wk[w].idx)
        /\ (wk[w].pc \in {"quit", "done"} /\ wk[w].article_urls # <<>>)
             => /\ UrlSeq(wk[w].attempts) = wk[w].article_urls
                /\ UrlSeq(wk[w].results)
                     = UrlSeq(SelectSeq(wk[w].attempts, LAMBDA a : ~a.raised))
                /\ ~wk[w].exc

\* C4 witness: a worker has ended whose first URL raised and whose second URL
\* gave a record.
C4_Witness ==
    \E w \in DOMAIN wk :
        /\ wk[w].pc = "done"
        /\ Len(wk[w].attempts) = 2
        /\ wk[w].attempts[1].raised
        /\ ~wk[w].attempts[2].raised
        /\ UrlSeq(wk[w].results) = <<wk[w].article_urls[2]>>

TranslationRaised ==
    \/ \E i \in 1..Len(calls) : calls[i].raised
    \/ Len(calls) < Len(titles)

\* C5: the list translated has one entry per title of the list handed to the
\* translation; when the library is there and no call failed, entry i is what
\* the service answered for title i; when the translation failed before or at
\* any call, every entry is the failure placeholder; and the records get
\* entry i as their title_en.
C5_TranslatedAllOrNothing ==
    (main_pc \in {"assign", "report", "done"} /\ translated # None)
    => /\ Len(translated) = Len(WorkList)
       /\ titles = [i \in 1..Len(WorkList) |-> WorkList[i].title_es]
       /\ HAS_GOOGLE /\ TranslationRaised
            => \A i \in 1..Len(translated) : translated[i] = TRANSLATION_FAILED
       /\ HAS_GOOGLE /\ ~TranslationRaised
            => \A i \in 1..Len(translated) :
                 /\ calls[i].text = titles[i]
                 /\ calls[i].translations \in {<<>>, <<ServiceTranslation(titles[i])>>}
                 /\ translated[i] = FirstOrEmpty(calls[i].translations)
       /\ ~HAS_GOOGLE
            => \A i \in 1..Len(translated) : translated[i] = GOOGLE_LIB_MISSING
       /\ main_pc \in {"report", "done"}
            => \A i \in 1..Len(WorkList) : WorkList[i].title_en = translated[i]

\* C5 witness: the first title was translated, the call for the second one
\* failed, and the records have their title_en.
C5_Witness ==
    /\ main_pc = "report"
    /\ Len(calls) = 2
    /\ ~calls[1].raised
    /\ calls[1].translations # <<>>
    /\ calls[2].raised
    /\ titles[1] # titles[2]

\* C6: no exception leaves run_on_browserstack_parallel, whatever the
\* capabilities list, the empty one included.
C6_NoExceptionCrossesOrchestrator ==
    mode = "bs" => (main_pc # "raised" /\ uncaught = "")

\* C7: the pool has one thread per capability; a submitted worker never has to
\* wait for a free thread; no capability is run twice and none beyond the
\* list is run; and when the run returns every capability was run once.
C7_OneWorkerPerCapability ==
    mode = "bs"
    => /\ main_pc \in {"submit", "collect", "bs_returned"}
            => max_workers = Len(capabilities_list)
       /\ \A w \in DOMAIN wk :
            /\ wk[w].pc = "pending"
                 => Cardinality({v \in DOMAIN wk : Running(v)}) < max_workers
            /\ wk[w].starts <= 1
            /\ w \notin BsWorkers => wk[w].starts = 0
       /\ main_pc = "bs_returned" => \A w \in BsWorkers : wk[w].starts = 1

\* C7 witness: more than one capability, and every worker is running at once.
C7_Witness ==
    /\ mode = "bs"
    /\ Len(capabilities_list) >= 2
    /\ \A w \in BsWorkers : Running(w)

\* C8: when get_browserstack_driver goes on to create the session, the request
\* carries userName and accessKey from the environment in bstack:options, the
\* caller's mapping has gained at most the key bstack:options and its other
\* keys keep their values, and the bundle has gained at most userName and
\* accessKey and its other keys keep their values.
C8_OnlyAuthInjected ==
    (fn_pc = "returned" /\ ~fn_ret.raised)
    => LET before == fn_args.cap
           after == fn_ret.cap
           bundle_before == DictGet(before, "bstack:options", EmptyDict)
           bundle_after == after["bstack:options"]
           auth == {"userName", "accessKey"}
       IN  /\ Len(fn_ret.requests) = 1
           /\ fn_ret.requests[1].capabilities = after
           /\ bundle_after["userName"] = fn_args.env["BROWSERSTACK_USERNAME"]
           /\ bundle_after["accessKey"] = fn_args.env["BROWSERSTACK_ACCESS_KEY"]
           /\ DOMAIN after = (DOMAIN before) \cup {"bstack:options"}
           /\ \A k \in (DOMAIN before) \ {"bstack:options"} : after[k] = before[k]
           /\ DOMAIN bundle_after = (DOMAIN bundle_before) \cup auth
           /\ \A k \in (DOMAIN bundle_before) \ auth : bundle_after[k] = bundle_before[k]

\* C8 witness: a session request for a mapping whose bundle came with keys
\* other than userName and accessKey.
C8_Witness ==
    /\ fn_pc = "returned"
    /\ "cap" \in DOMAIN fn_args
    /\ ~fn_ret.raised
    /\ "bstack:options" \in DOMAIN fn_args.cap
    /\ (DOMAIN fn_args.cap["bstack:options"]) \ {"userName", "accessKey"} # {}
    /\ (DOMAIN fn_args.cap) \ {"bstack:options"} # {}

MatchSet(anchors) ==
    {FullUrl(anchors[i]) : i \in {j \in 1..Len(anchors) : IsOpinionArticle(FullUrl(anchors[j]))}}

FirstSeen(anchors, u) ==
    CHOOSE i \in 1..Len(anchors) :
        /\ FullUrl(anchors[i]) = u
        /\ \A j \in 1..(i - 1) : FullUrl(anchors[j]) # u

\* the place of u among the distinct matching URLs, by first appearance
Rank(anchors, u) ==
    1 + Cardinality({v \in MatchSet(anchors) : FirstSeen(anchors, v) < FirstSeen(anchors, u)})

\* C9: link discovery returns min(max_count, number of distinct matching URLs)
\* entries, entry k being the k-th distinct matching URL by first appearance;
\* so nothing for max_count = 0 and nothing when no link matches.
C9_LinksUniqueOrderedTruncated ==
    fn_pc = "returned"
    => LET anchors == fn_args.anchors
           n == fn_args.max_articles
       IN  /\ Len(fn_ret) = Min(n, Cardinality(MatchSet(anchors)))
           /\ \A k \in 1..Len(fn_ret) :
                /\ fn_ret[k] \in MatchSet(anchors)
                /\ Rank(anchors, fn_ret[k]) = k
           /\ n = 0 => fn_ret = <<>>
           /\ MatchSet(anchors) = {} => fn_ret = <<>>

\* C9 witness: the same URL is linked twice, as a relative and as an absolute
\* link, and more distinct URLs match than max_count lets through.
C9_Witness ==
    /\ fn_pc = "returned"
    /\ "anchors" \in DOMAIN fn_args
    /\ fn_args.max_articles > 0
    /\ Len(fn_ret) = fn_args.max_articles
    /\ Cardinality(MatchSet(fn_args.anchors)) > fn_args.max_articles
    /\ \E i, j \in 1..Len(fn_args.anchors) :
         /\ i < j
         /\ fn_args.anchors[i] # fn_args.anchors[j]
         /\ FullUrl(fn_args.anchors[i]) = FullUrl(fn_args.anchors[j])
         /\ IsOpinionArticle(FullUrl(fn_args.anchors[i]))

\* where the tokens of a title start: its maximal runs of word characters
TokenStarts(t) ==
    {i \in 1..Len(t) : IsWordChar(t[i]) /\ (i = 1 \/ ~IsWordChar(t[i - 1]))}

\* the token that starts at i, in lower case
TokenAt(t, i) ==
    LET j == CHOOSE e \in i..Len(t) :
                 /\ \A k \in i..e : IsWordChar(t[k])
                 /\ e = Len(t) \/ ~IsWordChar(t[e + 1])
    IN  LowerStr(SubSeq(t, i, j))

\* every occurrence of a token in the titles: title, place, token
TokenOccurrences(ts) ==
    UNION {{<<n, i, TokenAt(ts[n], i)>> : i \in TokenStarts(ts[n])} : n \in 1..Len(ts)}

CountOf(occ, w) == Cardinality({o \in occ : o[3] = w})

\* how often the token w occurs in all the titles together
Occurrences(ts, w) == CountOf(TokenOccurrences(ts), w)

\* C10: the analysis maps exactly the tokens longer than 2 that occur more
\* than twice in all the titles together to that number of occurrences; the
\* result is the same for the titles in any other order; and it is empty
\* when every title is None or empty.
C10_RepeatedWordsExact ==
    fn_pc = "returned"
    => LET ts == fn_args.translated_titles
           occ == TokenOccurrences(ts)
           expected == {w \in {o[3] : o \in occ} : Len(w) > 2 /\ CountOf(occ, w) > 2}
       IN  /\ DOMAIN fn_ret.repeated = expected
           /\ \A w \in expected : fn_ret.repeated[w] = CountOf(occ, w)
           /\ fn_ret.repeated_reordered = fn_ret.repeated
           /\ (\A n \in 1..Len(ts) : Falsy(ts[n])) => DOMAIN fn_ret.repeated = {}

\* C10 witness: a word is counted that no single title holds more than once,
\* a word longer than 2 occurring twice is left out, and the titles were
\* reordered.
C10_Witness ==
    /\ fn_pc = "returned"
    /\ "translated_titles" \in DOMAIN fn_args
    /\ fn_args.reordered # fn_args.translated_titles
    /\ \E w \in DOMAIN fn_ret.repeated :
         \A n \in 1..Len(fn_args.translated_titles) :
             Occurrences(<<fn_args.translated_titles[n]>>, w) <= 1
    /\ \E w \in {o[3] : o \in TokenOccurrences(fn_args.translated_titles)} :
         /\ Len(w) > 2
         /\ Occurrences(fn_args.translated_titles, w) = 2
         /\ w \notin DOMAIN fn_ret.repeated

\* C11: in a run without the google library no translate_text call is made,
\* the list translated and every record's title_en are the placeholder
\* "(google lib missing)", and that placeholder is not the one of a failed
\* translation.
C11_LibMissingPlaceholder ==
    /\ GOOGLE_LIB_MISSING # TRANSLATION_FAILED
    /\ ~HAS_GOOGLE
         => /\ calls = <<>>
            /\ translated # None
                 => \A i \in 1..Len(translated) : translated[i] = GOOGLE_LIB_MISSING
            /\ main_pc \in {"report", "done"}
                 => \A i \in 1..Len(WorkList) : WorkList[i].title_en = GOOGLE_LIB_MISSING

\* C11 witness: a run without the library has given two records their title_en.
C11_Witness ==
    /\ ~HAS_GOOGLE
    /\ main_pc = "report"
    /\ Len(WorkList) >= 2
    /\ \A i \in 1..Len(WorkList) : WorkList[i].title_en = GOOGLE_LIB_MISSING

\* the fields of a record that are set when it is created and never again
Created(r) ==
    [url |-> r.url, title_es |-> r.title_es, body_es |-> r.body_es,
     cover_image |-> r.cover_image]

IsPrefix(a, b) == Len(a) <= Len(b) /\ SubSeq(b, 1, Len(a)) = a

Untranslated(rs) == \A i \in 1..Len(rs) : rs[i].title_en = None

\* title_en is None in every record until the translation pass has run
C12_NoneUntilAssigned ==
    /\ \A w \in DOMAIN wk : Untranslated(wk[w].results)
    /\ Untranslated(results_all)
    /\ main_pc \notin {"report", "done"} => Untranslated(results) /\ Untranslated(unique_results)
    /\ main_pc \in {"report", "done"}
         => \A i \in 1..Len(WorkList) :
              WorkList[i].title_en # None /\ WorkList[i].title_en = translated[i]

\* what one step may do to the records
C12_RecordStep ==
    /\ \A w \in DOMAIN wk :
         wk'[w].pc # "out_of_scope" => IsPrefix(wk[w].results, wk'[w].results)
    /\ results_all' # <<>> => IsPrefix(results_all, results_all')
    /\ \A i \in 1..Len(results_all') :
         i > Len(results_all) => \E w \in DOMAIN wk : results_all'[i] \in Range(wk[w].results)
    /\ (main_pc # "assign" /\ results' # results)
         => results' = (IF mode = "bs" THEN results_all ELSE wk[1].results)
    /\ (main_pc = "bs_returned" /\ unique_results' # unique_results)
         => Range(unique_results') \subseteq Range(results)
    /\ (main_pc # "bs_returned" /\ main_pc \notin {"local_scrape"} /\ WorkList' # WorkList)
         => /\ main_pc = "assign"
            /\ Len(WorkList') = Len(WorkList)
            /\ \A i \in 1..Len(WorkList) :
                 /\ Created(WorkList'[i]) = Created(WorkList[i])
                 /\ WorkList[i].title_en = None
                 /\ WorkList'[i].title_en # None

\* C12: title_en is None from the creation of a record until the translation
\* pass, is assigned once, in that pass, and no step of the merge, the dedupe,
\* the translation, the report or the analysis changes url, title_es, body_es
\* or cover_image of a record.
C12_OnlyTitleEnChanges == []C12_NoneUntilAssigned /\ [][C12_RecordStep]_vars

\* C12 witness: the parallel run has merged, deduped and given two records
\* their title_en.
C12_Witness ==
    /\ mode = "bs"
    /\ main_pc = "report"
    /\ Len(unique_results) >= 2
    /\ Len(results) > Len(unique_results)
    /\ \A i \in 1..Len(unique_results) : unique_results[i].title_en # None

HasImgUrl(page) ==
    \E u \in {page.og_image, page.figure_src, page.figure_data_src} : u \notin {NoneStr, ""}

\* C13: an iteration whose page was loaded appends the record of its URL
\* whatever the image request does; when the request raises, answers another
\* status than 200, or the file cannot be stored, cover_image is None; no file
\* is written unless the answer is 200; and a 200 answer of type image/png
\* gives a stored file whose name ends in .png.
C13_ImageFailureKeepsRecord ==
    (fn_pc = "returned" /\ ~fn_args.nav_raises)
    => LET http == fn_args.http
           ok == ~http.raises /\ http.status_code = 200
       IN  /\ Len(fn_ret.records) = 1
           /\ fn_ret.records[1].url = fn_args.url
           /\ (~ok \/ http.write_raises \/ ~HasImgUrl(fn_args.page))
                => fn_ret.records[1].cover_image = None
           /\ ~ok => fn_ret.written = {}
           /\ (ok /\ ~http.write_raises /\ http.content_type = "image/png"
                  /\ HasImgUrl(fn_args.page))
                => LET f == fn_ret.records[1].cover_image
                   IN  /\ f # None
                       /\ f[Len(f)] = ".png"
                       /\ fn_ret.written = {f}

\* C13 witness: the page names an image, the request for it is answered 404,
\* and the record is there without a cover image.
C13_Witness ==
    /\ fn_pc = "returned"
    /\ "http" \in DOMAIN fn_args
    /\ ~fn_args.nav_raises
    /\ HasImgUrl(fn_args.page)
    /\ fn_args.http.status_code = 404
    /\ Len(fn_ret.records) = 1
    /\ fn_ret.records[1].cover_image = None

\* the urls the workers returned: a function of the workers' outputs alone
WorkerUrls == UNION {Urls(wk[w].results) : w \in {v \in BsWorkers : ~wk[v].exc}}

\* C14: whatever the order in which the workers finished and were collected,
\* the dedupe leaves exactly the urls the workers returned; it leaves nothing
\* to translate only when they returned none.
C14_DedupedUrlsOrderFree ==
    [][main_pc = "bs_returned"
         => /\ Urls(unique_results') = WorkerUrls
            /\ main_pc' = "exit" <=> WorkerUrls = {}]_vars

\* C14 witness: the second worker was merged before the first one, they
\* returned different url sets with a url in common, and the dedupe has run.
C14_Witness ==
    /\ mode = "bs"
    /\ main_pc = "translate"
    /\ Len(results) = 3
    /\ results[2].url = results[3].url
    /\ results[1].url # results[2].url
    /\ Urls(unique_results) = Urls(results)
    /\ Len(unique_results) = 2

\* the place of a worker's step in the order of browserstack_worker
StepRank(pc) ==
    CASE pc = "unsubmitted" -> 0
      [] pc = "pending" -> 1
      [] pc = "get_driver" -> 2
      [] pc = "landing" -> 3
      [] pc = "articles" -> 4
      [] pc = "quit" -> 5
      [] pc = "done" -> 6
      [] OTHER -> 7

C15_WorkerOrder ==
    \A w \in DOMAIN wk :
        LET k == wk[w]
        IN  /\ k.pc \in {"landing", "articles", "quit"} => k.driver = "open"
            /\ k.pc \in {"unsubmitted", "pending", "get_driver"} => k.driver = "none"
            /\ k.pc \in {"unsubmitted", "pending", "get_driver", "landing"}
                 => k.article_urls = <<>> /\ k.attempts = <<>> /\ k.results = <<>>
            /\ k.session_requests <= 1 /\ k.starts <= 1 /\ k.quits <= 1
            /\ \A i, j \in 1..Len(k.article_urls) :
                 k.article_urls[i] = k.article_urls[j] => i = j
            /\ Len(k.attempts) <= Len(k.article_urls)
            /\ UrlSeq(k.attempts) = SubSeq(k.article_urls, 1, Len(k.attempts))
            /\ UrlSeq(k.results) = UrlSeq(SelectSeq(k.attempts, LAMBDA a : ~a.raised))
            /\ k.pc \in {"quit", "done"} => Len(k.attempts) = Len(k.article_urls)
            /\ k.driver = "quit" => k.pc = "done" /\ k.quits = 1

C15_WorkerStep ==
    \A w \in DOMAIN wk :
        (wk'[w] # wk[w] /\ wk'[w].pc # "out_of_scope")
        => \/ StepRank(wk'[w].pc) > StepRank(wk[w].pc)
           \/ /\ wk[w].pc = "articles"
              /\ wk'[w].pc = "articles"
              /\ Len(wk'[w].attempts) = Len(wk[w].attempts) + 1
              /\ IsPrefix(wk[w].attempts, wk'[w].attempts)

\* C15: a worker goes through its steps in one order and never back: the
\* driver is open before the landing page is loaded, no article is touched
\* before the landing page gave the URLs, the URLs are attempted one after the
\* other in the order found, each once, the record of an attempt is there (or
\* skipped) before the next attempt, and the driver is closed only after the
\* last attempt.
C15_SequentialNoRetry == []C15_WorkerOrder /\ [][C15_WorkerStep]_vars

\* C15 witness: a worker has closed its driver after two attempts, the first
\* of which gave a record and the second of which raised.
C15_Witness ==
    \E w \in DOMAIN wk :
        /\ wk[w].driver = "quit"
        /\ Len(wk[w].attempts) = 2
        /\ ~wk[w].attempts[1].raised
        /\ wk[w].attempts[2].raised
        /\ Len(wk[w].results) = 1

\* the main thread is in the as_completed loop, a worker that has ended is
\* not collected yet, and no future can be yielded
WaitsOnEndedWorker ==
    /\ main_pc = "collect"
    /\ \E w \in BsWorkers : wk[w].pc = "done" /\ w \notin Range(yielded)
    /\ \A w \in BsWorkers : ~MayYield(w)

Contribution(w) == IF wk[w].exc THEN <<>> ELSE wk[w].results

RECURSIVE Contributions(_)
Contributions(ws) ==
    IF ws = <<>> THEN <<>> ELSE Contribution(Head(ws)) \o Contributions(Tail(ws))

\* C17: the merged list is, at every turn of the collecting loop and at the
\* return, the lists of the collected workers that returned, each whole and
\* one after the other, with nothing from a worker that raised; at the return
\* every worker has been collected once.
C17_AllOrNothingContribution ==
    /\ main_pc = "collect" => results_all = Contributions(yielded)
    /\ main_pc = "bs_returned"
         => /\ results = Contributions(yielded)
            /\ Range(yielded) = BsWorkers
            /\ Len(yielded) = Len(capabilities_list)

\* C17 witness: the run has returned the two records of one worker and
\* nothing else, the other worker having raised.
C17_Witness ==
    /\ main_pc = "bs_returned"
    /\ Len(results) = 2
    /\ \E v, w \in BsWorkers :
         /\ wk[v].exc
         /\ ~wk[w].exc
         /\ results = wk[w].results

FirstIndex(seq, Test(_)) == CHOOSE i \in 1..Len(seq) : Test(seq[i]) /\ \A j \in 1..(i - 1) : ~Test(seq[j])

\* the worker that finished first among those that returned a record for u
EarliestFinisher(u) ==
    LET Returned(w) == ~wk[w].exc /\ u \in Urls(wk[w].results)
    IN  finish_order[FirstIndex(finish_order, Returned)]

\* C18: the merged list is the lists of the workers in the order they
\* finished, and so for every url of the merged list the first record with
\* that url, the one the dedupe keeps, is a record of the worker that finished
\* first among those that returned the url.
C18_KeptFromEarliestFinisher ==
    /\ main_pc = "bs_returned" => results = Contributions(finish_order)
    /\ main_pc = "bs_returned"
         => \A u \in Urls(results) :
              LET HasUrl(r) == r.url = u
              IN  results[FirstIndex(results, HasUrl)]
                    \in Range(wk[EarliestFinisher(u)].results)

Unset(name) == name \notin DOMAIN environ \/ environ[name] = ""

BrowserStackUnset == Unset("BROWSERSTACK_USERNAME") \/ Unset("BROWSERSTACK_ACCESS_KEY")

ProjectUnresolved ==
    /\ Unset("GOOGLE_CLOUD_PROJECT")
    /\ Unset("GCP_PROJECT")
    /\ \/ Unset("GOOGLE_APPLICATION_CREDENTIALS")
       \/ ~cred_file.readable
       \/ "project_id" \notin DOMAIN cred_file.json

\* C19: with the library there and no project id to be found, no
\* translate_text call is ever made and the translation ends as failed; with
\* the BrowserStack user name or access key unset, no worker ever issues a
\* session-creation request or holds a driver, and every worker that ran ended
\* by the exception.
C19_MissingConfigFailsFast ==
    /\ (HAS_GOOGLE /\ ProjectUnresolved)
         => /\ calls = <<>>
            /\ main_pc # "translating"
            /\ translated # None
                 => translated = [i \in 1..Len(titles) |-> TRANSLATION_FAILED]
    /\ (mode = "bs" /\ BrowserStackUnset)
         => \A w \in DOMAIN wk :
              /\ wk[w].session_requests = 0
              /\ wk[w].driver = "none"
              /\ wk[w].pc \in {"unsubmitted", "pending", "get_driver", "done", "out_of_scope"}
              /\ wk[w].pc = "done" => wk[w].exc

\* C19 witness: the library is there, the credentials file names no project,
\* and the translation of two titles has ended as failed without a call.
C19_Witness ==
    /\ HAS_GOOGLE
    /\ ProjectUnresolved
    /\ "GOOGLE_APPLICATION_CREDENTIALS" \in DOMAIN environ
    /\ main_pc = "assign"
    /\ Len(titles) = 2
    /\ calls = <<>>
    /\ translated = <<TRANSLATION_FAILED, TRANSLATION_FAILED>>

\* C20: from the return of the parallel run, and from the end of the local
\* scrape, on (the dedupe, every translate_text call, the analysis), no worker
\* is pending or running and no driver is open: every worker that was started
\* has ended and every driver that was opened has had quit() called on it.
C20_TailAfterWorkersEnded ==
    (\/ main_pc \in {"bs_returned", "exit"}
     \/ InTail
     \/ calls # <<>>)
    => /\ \A w \in DOMAIN wk :
            /\ wk[w].pc \in {"unsubmitted", "done", "out_of_scope"}
            /\ wk[w].driver # "open"
            /\ wk[w].starts = 1 => wk[w].pc = "done"
       /\ main_pc = "bs_returned" => \A w \in BsWorkers : wk[w].pc = "done"
       /\ (mode = "local" /\ main_pc # "done")
            => wk[1].pc = "done" /\ wk[1].driver = "quit"

\* C20 witness: the parallel run has returned records to the dedupe, and both
\* its workers have ended with their drivers closed.
C20_Witness ==
    /\ main_pc = "bs_returned"
    /\ results # <<>>
    /\ Len(capabilities_list) = 2
    /\ \A w \in BsWorkers : wk[w].pc = "done" /\ wk[w].driver = "quit"

====
